---- MODULE Spec2Model ----
(***************************************************************************)
(* ZeroDTERecommender (src/zerodte_recommender.py): the trend score, the   *)
(* strike selection with its Black-Scholes delta, and the spread sizing.   *)
(*                                                                         *)
(* The recommender keeps no state between calls, so a state of the model   *)
(* is one call: the method called (op), its arguments (args) and what the  *)
(* call produced (ret): a returned value or a raised exception.            *)
(*                                                                         *)
(* Numbers.  Prices, strikes, credits and margins are integers.  A Python  *)
(* float that is not an integer (a logarithm, a delta, the trend score) is *)
(* a fixed-point integer in units of 1/FP; the float specials are kept as  *)
(* separate kinds (nan, +inf, -inf).  IEEE rounding is not modelled.       *)
(***************************************************************************)
EXTENDS Integers, Sequences, FiniteSets, TLC

VARIABLES op, args, ret

vars == <<op, args, ret>>

----------------------------------------------------------------------------
(* Configuration set by __init__ and the literals of the methods.          *)

\* self.min_strike_distance = 0.0015, in units of 1/PerTenThousand
min_strike_distance == 15
PerTenThousand == 10^4
\* self.strike_gap = 5
strike_gap == 5
\* self.ema_window = 5
ema_window == 5
\* self.ema_trend_window = 260
ema_trend_window == 260
\* strike_width * 30: the credit per point of width
CreditPerPoint == 30
\* strike_width * 100: the contract multiplier
ContractMultiplier == 100
\* T = 1/365
DaysPerYear == 365

----------------------------------------------------------------------------
(* Fixed-point arithmetic.  A value a definition uses more than once is a  *)
(* parameter of the definition, computed where the definition is applied.  *)

FP == 10^6

Abs(x) == IF x < 0 THEN -x ELSE x

Sgn(x) == IF x > 0 THEN 1 ELSE IF x < 0 THEN -1 ELSE 0

Max(a, b) == IF a >= b THEN a ELSE b

Min(a, b) == IF a <= b THEN a ELSE b

\* the quotient rounded toward zero, b > 0
TruncDiv(a, b) == Sgn(a) * (Abs(a) \div b)

\* math.floor(a / b) and math.ceil(a / b) for b > 0
Floor(a, b) == a \div b

Ceil(a, b) == -((-a) \div b)

RECURSIVE SqrtSearch(_, _, _)
SqrtSearch(n, lo, hi) ==
    IF lo >= hi THEN lo
    ELSE IF ((lo + hi + 1) \div 2) * ((lo + hi + 1) \div 2) <= n
         THEN SqrtSearch(n, (lo + hi + 1) \div 2, hi)
         ELSE SqrtSearch(n, lo, ((lo + hi + 1) \div 2) - 1)

\* the integer square root of n >= 0
Isqrt(n) == SqrtSearch(n, 0, Min(n, 46340))

\* the floats of the model
Num(v) == [kind |-> "num", v |-> v]

NaN == [kind |-> "nan", v |-> 0]

PosInf == [kind |-> "inf", v |-> 1]

NegInf == [kind |-> "inf", v |-> -1]

\* -x
Neg(x) == IF x.kind = "nan" THEN NaN ELSE [kind |-> x.kind, v |-> -x.v]

\* x * y for x, y >= 0 in units of 1/FP
MulFP(x, y) == ((x \div 1000) * (y \div 1000))

\* term / k + term * z2 / (k + 2) + ... up to the power 7
RECURSIVE AtanhTerms(_, _, _)
AtanhTerms(z2, term, k) ==
    IF k > 7 THEN 0
    ELSE (term \div k) + AtanhTerms(z2, MulFP(z2, term), k + 2)

\* 2 * atanh(z), z in units of 1/FP
TwiceAtanh(z) == Sgn(z) * 2 * AtanhTerms(MulFP(Abs(z), Abs(z)), Abs(z), 1)

\* ln(a / b) in units of 1/FP for a, b > 0, by the first terms of the series
\* of 2 * atanh((a - b) / (a + b)): its sign is the sign of a - b, and it is
\* accurate for a ratio near 1 (for a ratio far from 1 it is large, of the
\* right sign, and short of the true value).
LnRatio(a, b) ==
    IF Abs(a - b) <= 2000 THEN TwiceAtanh(TruncDiv(FP * (a - b), a + b))
    ELSE TwiceAtanh(TruncDiv(1000 * (a - b), a + b) * 1000)

\* np.log(S / K) for K # 0: nan for a negative ratio, -inf for 0
np_log_ratio(S, K) ==
    IF S = 0 THEN NegInf
    ELSE IF (S < 0) # (K < 0) THEN NaN
    ELSE Num(LnRatio(Abs(S), Abs(K)))

\* the standard normal distribution function at 0, 0.25, ..., 4, in 1/FP
PhiTable ==
    << 500000, 598706, 691462, 773373, 841345, 894350, 933193, 959941,
       977250, 987776, 993790, 997020, 998650, 999423, 999767, 999912,
       999968 >>

\* Phi at x >= 0, x in thousandths: the table, interpolated
PhiUpper(x) ==
    IF x >= 8300 THEN FP
    ELSE IF x >= 4000 THEN PhiTable[17] + ((x - 4000) * (FP - PhiTable[17])) \div 4300
    ELSE PhiTable[(x \div 250) + 1]
         + ((x % 250) * (PhiTable[(x \div 250) + 2] - PhiTable[(x \div 250) + 1])) \div 250

\* scipy.stats.norm.cdf, the argument in thousandths, the value in 1/FP
norm_cdf(x) ==
    IF x.kind = "nan" THEN NaN
    ELSE IF x.kind = "inf" THEN (IF x.v > 0 THEN Num(FP) ELSE Num(0))
    ELSE IF x.v >= 0 THEN Num(PhiUpper(x.v))
    ELSE Num(FP - PhiUpper(-x.v))

----------------------------------------------------------------------------
(* Results of a call.                                                      *)

Return(v) == [status |-> "ok", value |-> v]

Raise(e) == [status |-> "raise", exc |-> e]

----------------------------------------------------------------------------
(* calculate_black_scholes_delta.  S and K are integers; T, r and sigma    *)
(* are in units of 1/FP.                                                   *)

\* (r + 0.5 * sigma ** 2) * T
Drift(T, r, sigma) ==
    (((r + ((sigma \div 1000) * (sigma \div 1000)) \div 2) \div 100) * (T \div 100)) \div 100

\* sigma * np.sqrt(T)
SigmaSqrtT(T, sigma) == ((sigma \div 100) * Isqrt(T * 100)) \div 100

\* (lg + drift) / den in thousandths; numpy divides by zero without raising
D1(lg, drift, den) ==
    IF lg.kind = "nan" THEN NaN
    ELSE IF lg.kind = "inf" THEN (IF den = 0 THEN NegInf ELSE lg)
    ELSE IF den = 0
         THEN (IF lg.v + drift > 0 THEN PosInf
               ELSE IF lg.v + drift < 0 THEN NegInf ELSE NaN)
    ELSE IF Abs(lg.v + drift) > 2 * FP THEN Num(TruncDiv(lg.v + drift, den) * 1000)
    ELSE Num(TruncDiv((lg.v + drift) * 1000, den))

\* d1 for K # 0 and T > 0
BlackScholesD1(S, K, T, r, sigma) ==
    D1(np_log_ratio(S, K), Drift(T, r, sigma), SigmaSqrtT(T, sigma))

\* norm.cdf(d1) for a call, -norm.cdf(-d1) for a put
DeltaOfD1(d1, option_type) ==
    IF option_type = "call" THEN norm_cdf(d1) ELSE Neg(norm_cdf(Neg(d1)))

\* S / K raises for K = 0 (Python numbers)
calculate_black_scholes_delta(S, K, T, r, sigma, option_type) ==
    IF T <= 0 THEN Return(IF S > K THEN Num(FP) ELSE Num(0))
    ELSE IF K = 0 THEN Raise("ZeroDivisionError")
    ELSE Return(DeltaOfD1(BlackScholesD1(S, K, T, r, sigma), option_type))

----------------------------------------------------------------------------
(* get_strike_recommendations.                                             *)

\* target_strike * PerTenThousand: spx_price -/+ spx_price * min_strike_distance
TargetStrike(spx_price, option_type) ==
    IF option_type = "put"
    THEN spx_price * PerTenThousand - spx_price * min_strike_distance
    ELSE spx_price * PerTenThousand + spx_price * min_strike_distance

\* math.floor / math.ceil of target_strike / strike_gap, times strike_gap
ShortStrike(spx_price, option_type) ==
    IF option_type = "put"
    THEN Floor(TargetStrike(spx_price, option_type), PerTenThousand * strike_gap) * strike_gap
    ELSE Ceil(TargetStrike(spx_price, option_type), PerTenThousand * strike_gap) * strike_gap

\* a variant: the call side's long leg two gaps out
LongStrikeWideCall(short_strike, option_type) ==
    IF option_type = "put" THEN short_strike - strike_gap
    ELSE short_strike + 2 * strike_gap

LongStrike(short_strike, option_type) ==
    IF option_type = "put" THEN short_strike - strike_gap
    ELSE short_strike + strike_gap

DistanceFromAtm(spx_price, short_strike, option_type) ==
    IF option_type = "put" THEN spx_price - short_strike
    ELSE short_strike - spx_price

\* the returned dict, or the exception of the first delta that raised
StrikeResult(short_strike, long_strike, distance_from_atm, short_delta, long_delta) ==
    IF short_delta.status = "raise" THEN short_delta
    ELSE IF long_delta.status = "raise" THEN long_delta
    ELSE Return([short_strike      |-> short_strike,
                 long_strike       |-> long_strike,
                 short_delta       |-> short_delta.value,
                 long_delta        |-> long_delta.value,
                 distance_from_atm |-> distance_from_atm,
                 strike_width      |-> Abs(short_strike - long_strike)])

\* T = 1/365, r = 0.05, sigma = 0.20
StrikeDelta(spx_price, strike, option_type) ==
    calculate_black_scholes_delta(spx_price, strike, FP \div DaysPerYear,
                                  (5 * FP) \div 100, (20 * FP) \div 100, option_type)

StrikesWithDeltas(spx_price, option_type, short_strike, long_strike) ==
    StrikeResult(short_strike, long_strike,
                 DistanceFromAtm(spx_price, short_strike, option_type),
                 StrikeDelta(spx_price, short_strike, option_type),
                 StrikeDelta(spx_price, long_strike, option_type))

StrikesFromShort(spx_price, option_type, short_strike) ==
    StrikesWithDeltas(spx_price, option_type, short_strike,
                      LongStrike(short_strike, option_type))

get_strike_recommendations(spx_price, option_type) ==
    StrikesFromShort(spx_price, option_type, ShortStrike(spx_price, option_type))

----------------------------------------------------------------------------
(* calculate_spread_metrics.                                               *)

\* strike_width * 30
EstimatedCredit(strike_width) == strike_width * CreditPerPoint

\* (strike_width * 100) - estimated_credit_per_spread
MaxLossPerSpread(strike_width) ==
    strike_width * ContractMultiplier - EstimatedCredit(strike_width)

\* math.ceil(target_credit / estimated_credit_per_spread)
ContractsForCredit(target_credit, estimated_credit) ==
    Ceil(target_credit, estimated_credit)

\* contracts_needed after the margin check
ReduceToMargin(contracts_needed, max_loss_per_spread, max_margin) ==
    IF contracts_needed * max_loss_per_spread > max_margin
    THEN Max(1, Floor(max_margin, max_loss_per_spread))
    ELSE contracts_needed

\* the returned dict
MetricsResult(estimated_credit, max_loss_per_spread, contracts_needed) ==
    [estimated_credit    |-> estimated_credit,
     max_loss_per_spread |-> max_loss_per_spread,
     contracts_needed    |-> contracts_needed,
     total_credit        |-> estimated_credit * contracts_needed,
     total_margin        |-> max_loss_per_spread * contracts_needed]

\* the division by a zero credit raises
SpreadMetrics(estimated_credit, max_loss_per_spread, target_credit, max_margin) ==
    IF estimated_credit = 0 THEN Raise("ZeroDivisionError")
    ELSE Return(MetricsResult(estimated_credit, max_loss_per_spread,
                              ReduceToMargin(ContractsForCredit(target_credit, estimated_credit),
                                             max_loss_per_spread, max_margin)))

calculate_spread_metrics(short_strike, long_strike, target_credit, max_margin) ==
    SpreadMetrics(EstimatedCredit(Abs(short_strike - long_strike)),
                  MaxLossPerSpread(Abs(short_strike - long_strike)),
                  target_credit, max_margin)

----------------------------------------------------------------------------
(* get_trade_recommendations.                                              *)

\* {**rec, **metrics}
MergeDicts(rec, metrics) ==
    [k \in DOMAIN rec \cup DOMAIN metrics |->
        IF k \in DOMAIN metrics THEN metrics[k] ELSE rec[k]]

\* the returned dict; the three top-level fields are the put side's
TradeResult(bull_put_rec, bear_call_rec, bull_put_metrics, bear_call_metrics) ==
    IF bull_put_metrics.status = "raise" THEN bull_put_metrics
    ELSE IF bear_call_metrics.status = "raise" THEN bear_call_metrics
    ELSE Return([bull_put_spread     |-> MergeDicts(bull_put_rec, bull_put_metrics.value),
                 bear_call_spread    |-> MergeDicts(bear_call_rec, bear_call_metrics.value),
                 contracts_needed    |-> bull_put_metrics.value.contracts_needed,
                 estimated_credit    |-> bull_put_metrics.value.estimated_credit,
                 max_loss_per_spread |-> bull_put_metrics.value.max_loss_per_spread])

TradeFromStrikes(bull_put_rec, bear_call_rec, target_credit, max_margin) ==
    IF bull_put_rec.status = "raise" THEN bull_put_rec
    ELSE IF bear_call_rec.status = "raise" THEN bear_call_rec
    ELSE TradeResult(bull_put_rec.value, bear_call_rec.value,
                     calculate_spread_metrics(bull_put_rec.value.short_strike,
                                              bull_put_rec.value.long_strike,
                                              target_credit, max_margin),
                     calculate_spread_metrics(bear_call_rec.value.short_strike,
                                              bear_call_rec.value.long_strike,
                                              target_credit, max_margin))

get_trade_recommendations(spx_price, target_credit, max_margin) ==
    TradeFromStrikes(get_strike_recommendations(spx_price, "put"),
                     get_strike_recommendations(spx_price, "call"),
                     target_credit, max_margin)

----------------------------------------------------------------------------
(* get_spx_historical_data.  The data provider's answer to the download    *)
(* of SPY is spy: [status |-> "ok", close |-> the closes], "empty" (an     *)
(* empty frame) or "error" (the download raised).                          *)

None == [is_none |-> TRUE, close |-> << >>]

Frame(close) == [is_none |-> FALSE, close |-> close]

\* spy['Close'] * 10, or None
get_spx_historical_data(spy) ==
    IF spy.status = "error" THEN None
    ELSE IF spy.status = "empty" THEN None
    ELSE Frame([i \in 1 .. Len(spy.close) |-> spy.close[i] * 10])

----------------------------------------------------------------------------
(* calculate_trend_score.                                                  *)

\* a variant: the length compared with the smoothing window
InsufficientDataSmoothingWindow(hist_data) ==
    hist_data.is_none \/ Len(hist_data.close) < ema_window

\* hist_data is None or len(hist_data) < self.ema_trend_window
InsufficientData(hist_data) ==
    hist_data.is_none \/ Len(hist_data.close) < ema_trend_window

\* hist_data.iloc[-self.ema_trend_window:] when it is longer
LimitToTrendWindow(close) ==
    IF Len(close) > ema_trend_window
    THEN SubSeq(close, Len(close) - ema_trend_window + 1, Len(close))
    ELSE close

RECURSIVE SumRange(_, _, _)
SumRange(close, lo, hi) ==
    IF lo > hi THEN 0 ELSE close[hi] + SumRange(close, lo, hi - 1)

\* rolling(min_periods=1, window=ema_window).mean() at i, as <<sum, count>>
ema_close(close, i) ==
    <<SumRange(close, Max(1, i - ema_window + 1), i), i - Max(1, i - ema_window + 1) + 1>>

\* log(cur) - log(prev) of two means <<sum, count>>
LogMeanDiff(cur, prev) == LnRatio(cur[1] * prev[2], prev[1] * cur[2])

\* a variant: the difference taken the other way, diff(-1)
diff_log_reversed(close, i) == LogMeanDiff(ema_close(close, i - 1), ema_close(close, i))

\* np.log(ema_close).diff(1) at i >= 2
diff_log(close, i) == LogMeanDiff(ema_close(close, i), ema_close(close, i - 1))

RECURSIVE SumDiffLog(_, _, _)
SumDiffLog(close, lo, hi) ==
    IF lo > hi THEN 0 ELSE diff_log(close, hi) + SumDiffLog(close, lo, hi - 1)

\* diff_log.rolling(window=ema_window).sum().iloc[-1]: nan unless the last
\* ema_window differences all exist (the first one of a series does not)
TrendScore(close) ==
    IF Len(close) - ema_window + 1 < 2 THEN NaN
    ELSE Num(SumDiffLog(close, Len(close) - ema_window + 1, Len(close)))

\* trend_score > c and trend_score < c, c in units of 1/FP; false for nan
Gt(x, c) == x.kind = "num" /\ x.v > c

Lt(x, c) == x.kind = "num" /\ x.v < c

\* a variant: a score of 0 counted as long
should_trade_long_or_flat(trend_score) == Gt(trend_score, -1)

should_trade_long(trend_score) == Gt(trend_score, 0)

should_trade_short(trend_score) == Lt(trend_score, 0)

\* the thresholds 0.02 and -0.02
Interpretation(trend_score) ==
    IF Gt(trend_score, (2 * FP) \div 100) THEN "Strongly Bullish"
    ELSE IF Gt(trend_score, 0) THEN "Weakly Bullish"
    ELSE IF Gt(trend_score, -((2 * FP) \div 100)) THEN "Weakly Bearish"
    ELSE "Strongly Bearish"

\* the VIX download: its last close, or 18.0 when empty or raising
VixLevel(vix) == IF vix.status = "ok" THEN vix.level ELSE 18

\* the result of the two fallbacks
Fallback(interpretation) ==
    [raw_score          |-> Num(0),
     should_trade_long  |-> FALSE,
     should_trade_short |-> FALSE,
     vix_level          |-> 18,
     interpretation     |-> interpretation]

\* the result of the computation
TrendResult(trend_score, vix_level) ==
    [raw_score          |-> trend_score,
     should_trade_long  |-> should_trade_long(trend_score),
     should_trade_short |-> should_trade_short(trend_score),
     vix_level          |-> vix_level,
     interpretation     |-> Interpretation(trend_score)]

\* fault: an operation inside the try block raises
TrendScoreOf(hist_data, vix, fault) ==
    IF InsufficientData(hist_data)
    THEN Return(Fallback("No trend data available"))
    ELSE IF fault THEN Return(Fallback("Error calculating trend"))
    ELSE Return(TrendResult(TrendScore(LimitToTrendWindow(hist_data.close)),
                            VixLevel(vix)))

calculate_trend_score(spy, vix, fault) ==
    TrendScoreOf(get_spx_historical_data(spy), vix, fault)

----------------------------------------------------------------------------
(* The inputs the calls are tried on.                                      *)

\* prices from -MaxSmallPrice to MaxSmallPrice, where a strike is 0 or
\* negative, and index-sized ones
MaxSmallPrice == 12

Prices == (-MaxSmallPrice .. MaxSmallPrice) \cup {-100, 100, 3330, 5820, 5821, 10000}

TargetCredits == {-100, 0, 1, 150, 151, 1000, 2500}

MaxMargins == {-100, 0, 100, 349, 350, 351, 700, 5000, 6000}

\* (short_strike, long_strike) of a direct call of calculate_spread_metrics
StrikePairs == {<<5810, 5805>>, <<5830, 5835>>, <<5810, 5800>>, <<5810, 5809>>, <<5810, 5810>>}

OptionTypes == {"put", "call"}

\* S, K and T of a direct call of calculate_black_scholes_delta, in and
\* out of the money, expired or not
DeltaSpots == {1, 12, 5820}

DeltaStrikes == {5, 10, 5805, 5810, 5830, 5835}

DeltaTimes == {-(FP \div DaysPerYear), 0, FP \div DaysPerYear, FP}

\* degenerate ones: a spot or a strike that is not positive, no volatility
DegenerateSpots == {-5, 0, 5}

DegenerateStrikes == {-5, 0, 5}

DegenerateSigmas == {0, (20 * FP) \div 100}

\* SPY closes: a line of slope `slope` from SpyBase, then TailLen free steps
TailLen == 4

SpyBase == 400

Steps == {-1, 0, 1}

RECURSIVE SumSteps(_, _)
SumSteps(tail, k) == IF k = 0 THEN 0 ELSE tail[k] + SumSteps(tail, k - 1)

SpySeries(n, slope, tail) ==
    [i \in 1 .. n |->
        IF i <= n - TailLen THEN SpyBase + slope * i
        ELSE SpyBase + slope * (n - TailLen) + SumSteps(tail, i - (n - TailLen))]

FullLengths == {ema_trend_window, ema_trend_window + 1}

ShortLengths == {TailLen, ema_trend_window - 1}

\* the download raised, or gave an empty frame
NoSpyAnswers ==
    {[status |-> "error", close |-> << >>], [status |-> "empty", close |-> << >>]}

VixAnswers ==
    {[status |-> "error", level |-> 0], [status |-> "ok", level |-> 12],
     [status |-> "ok", level |-> 31]}

----------------------------------------------------------------------------
(* The calls.  The caller is sequential: a call is made when no call is    *)
(* in progress (op = "idle"), and its result is consumed before the next.  *)

Idle == [none |-> TRUE]

Init ==
    /\ op = "idle"
    /\ args = Idle
    /\ ret = Idle

\* the call, whatever the data provider answered
TrendScoreCalled(spy, vix, fault) ==
    /\ op = "idle"
    /\ op' = "calculate_trend_score"
    /\ args' = [spy |-> spy, vix |-> vix, fault |-> fault]
    /\ ret' = calculate_trend_score(spy, vix, fault)

\* no data, or fewer closes than the trend window
CallTrendScoreShort ==
    \E vix \in VixAnswers, fault \in BOOLEAN :
        \/ \E spy \in NoSpyAnswers : TrendScoreCalled(spy, vix, fault)
        \/ \E n \in ShortLengths, slope \in Steps :
              TrendScoreCalled([status |-> "ok",
                                close |-> SpySeries(n, slope, [k \in 1 .. TailLen |-> slope])],
                               vix, fault)

\* at least the trend window of closes
CallTrendScore ==
    \E vix \in VixAnswers, fault \in BOOLEAN,
       n \in FullLengths, slope \in Steps, tail \in [1 .. TailLen -> Steps] :
        TrendScoreCalled([status |-> "ok", close |-> SpySeries(n, slope, tail)], vix, fault)

DeltaCalled(S, K, T, r, sigma, option_type) ==
    /\ op = "idle"
    /\ op' = "calculate_black_scholes_delta"
    /\ args' = [S |-> S, K |-> K, T |-> T, r |-> r, sigma |-> sigma,
                option_type |-> option_type]
    /\ ret' = calculate_black_scholes_delta(S, K, T, r, sigma, option_type)

CallBlackScholesDelta ==
    \E S \in DeltaSpots, K \in DeltaStrikes, T \in DeltaTimes, option_type \in OptionTypes :
        DeltaCalled(S, K, T, (5 * FP) \div 100, (20 * FP) \div 100, option_type)

CallBlackScholesDeltaDegenerate ==
    \E S \in DegenerateSpots, K \in DegenerateStrikes, T \in DeltaTimes,
       sigma \in DegenerateSigmas, option_type \in OptionTypes :
        /\ (S <= 0 \/ K <= 0 \/ sigma = 0)
        /\ DeltaCalled(S, K, T, (5 * FP) \div 100, sigma, option_type)

CallStrikeRecommendations ==
    \E spx_price \in Prices, option_type \in OptionTypes :
        /\ op = "idle"
        /\ op' = "get_strike_recommendations"
        /\ args' = [spx_price |-> spx_price, option_type |-> option_type]
        /\ ret' = get_strike_recommendations(spx_price, option_type)

CallSpreadMetrics ==
    \E p \in StrikePairs, target_credit \in TargetCredits, max_margin \in MaxMargins :
        /\ op = "idle"
        /\ op' = "calculate_spread_metrics"
        /\ args' = [short_strike |-> p[1], long_strike |-> p[2],
                    target_credit |-> target_credit, max_margin |-> max_margin]
        /\ ret' = calculate_spread_metrics(p[1], p[2], target_credit, max_margin)

CallTradeRecommendations ==
    \E spx_price \in Prices, target_credit \in TargetCredits, max_margin \in MaxMargins :
        /\ op = "idle"
        /\ op' = "get_trade_recommendations"
        /\ args' = [spx_price |-> spx_price, target_credit |-> target_credit,
                    max_margin |-> max_margin]
        /\ ret' = get_trade_recommendations(spx_price, target_credit, max_margin)

\* the caller has read the result
Finish ==
    /\ op # "idle"
    /\ op' = "idle"
    /\ args' = Idle
    /\ ret' = Idle

Next ==
    \/ CallTrendScoreShort
    \/ CallTrendScore
    \/ CallBlackScholesDelta
    \/ CallBlackScholesDeltaDegenerate
    \/ CallStrikeRecommendations
    \/ CallSpreadMetrics
    \/ CallTradeRecommendations
    \/ Finish

Spec == Init /\ [][Next]_vars

----------------------------------------------------------------------------
(* The claims.                                                             *)

IsCall(name) == op = name

Returned == ret.status = "ok"

MetricsKeys ==
    {"estimated_credit", "max_loss_per_spread", "contracts_needed",
     "total_credit", "total_margin"}

StrikeKeys ==
    {"short_strike", "long_strike", "short_delta", "long_delta",
     "distance_from_atm", "strike_width"}

TrendLabels ==
    {"Strongly Bullish", "Weakly Bullish", "Weakly Bearish", "Strongly Bearish"}

\* a result that carries anything beyond the five numbers of the sizing
FlagsOverage(metrics) == DOMAIN metrics \ MetricsKeys # {}

\* C1: a call of calculate_spread_metrics with target_credit > 0,
\* max_margin > 0 and a positive width returns contracts_needed >= 1, and
\* total_margin <= max_margin unless the result flags that one contract
\* exceeds the margin cap.
C1_MarginKeptOrFlagged ==
    (/\ IsCall("calculate_spread_metrics")
     /\ args.target_credit > 0
     /\ args.max_margin > 0
     /\ args.short_strike # args.long_strike)
    => /\ Returned
       /\ ret.value.contracts_needed >= 1
       /\ (ret.value.total_margin <= args.max_margin \/ FlagsOverage(ret.value))

IsGridMultiple(strike) == strike % strike_gap = 0

\* C2: for every spx_price > 0 get_strike_recommendations returns strikes on
\* the grid, strike_gap apart; the put's short strike is the largest grid
\* multiple <= spx_price * (1 - min_strike_distance), below the price, with
\* the long strike one gap lower; the call's short strike is the smallest
\* grid multiple >= spx_price * (1 + min_strike_distance), above the price,
\* with the long strike one gap higher.
C2_StrikesOnGrid ==
    (IsCall("get_strike_recommendations") /\ args.spx_price > 0)
    => /\ Returned
       /\ IsGridMultiple(ret.value.short_strike)
       /\ IsGridMultiple(ret.value.long_strike)
       /\ ret.value.strike_width = strike_gap
       /\ (args.option_type = "put" =>
             /\ ret.value.short_strike * PerTenThousand
                  <= args.spx_price * (PerTenThousand - min_strike_distance)
             /\ (ret.value.short_strike + strike_gap) * PerTenThousand
                  > args.spx_price * (PerTenThousand - min_strike_distance)
             /\ ret.value.short_strike < args.spx_price
             /\ ret.value.long_strike = ret.value.short_strike - strike_gap
             /\ ret.value.distance_from_atm = args.spx_price - ret.value.short_strike)
       /\ (args.option_type = "call" =>
             /\ ret.value.short_strike * PerTenThousand
                  >= args.spx_price * (PerTenThousand + min_strike_distance)
             /\ (ret.value.short_strike - strike_gap) * PerTenThousand
                  < args.spx_price * (PerTenThousand + min_strike_distance)
             /\ ret.value.short_strike > args.spx_price
             /\ ret.value.long_strike = ret.value.short_strike + strike_gap
             /\ ret.value.distance_from_atm = ret.value.short_strike - args.spx_price)

\* what is left of C2 when the call returns: the strikes it returns are as
\* C2 says (the calls that raise are C4's)
StrikesOnGridWhenReturned ==
    (IsCall("get_strike_recommendations") /\ args.spx_price > 0 /\ ~Returned)
    \/ C2_StrikesOnGrid

\* the count of the claim: ceil(target / credit) with a minimum of 1, then
\* floor(margin / loss) with a minimum of 1 if the margin is exceeded
ClaimedContracts(target_credit, max_margin, credit, loss) ==
    IF Max(1, Ceil(target_credit, credit)) * loss > max_margin
    THEN Max(1, Floor(max_margin, loss))
    ELSE Max(1, Ceil(target_credit, credit))

\* C3: contracts_needed is ceil(target_credit / credit_per_contract) with a
\* minimum of 1, replaced by floor(max_margin / max_loss_per_spread) with a
\* minimum of 1 when its margin exceeds max_margin; the totals are the final
\* count times the credit and the loss per contract, which are width * 30
\* and width * 100 - width * 30.
C3_ContractsAsClaimed ==
    (IsCall("calculate_spread_metrics") /\ Returned)
    => /\ ret.value.estimated_credit
            = Abs(args.short_strike - args.long_strike) * 30
       /\ ret.value.max_loss_per_spread
            = Abs(args.short_strike - args.long_strike) * 100 - ret.value.estimated_credit
       /\ ret.value.contracts_needed
            = ClaimedContracts(args.target_credit, args.max_margin,
                               ret.value.estimated_credit, ret.value.max_loss_per_spread)
       /\ ret.value.total_credit = ret.value.contracts_needed * ret.value.estimated_credit
       /\ ret.value.total_margin = ret.value.contracts_needed * ret.value.max_loss_per_spread

\* what is left of C3 for target_credit > 0, where the ceiling is >= 1 by
\* itself
ContractsAsClaimedForPositiveTarget ==
    (IsCall("calculate_spread_metrics") /\ args.target_credit <= 0)
    \/ C3_ContractsAsClaimed

\* C4: get_trade_recommendations never raises for spx_price > 0,
\* target_credit > 0 and max_margin > 0.
C4_PipelineTotal ==
    (/\ IsCall("get_trade_recommendations")
     /\ args.spx_price > 0
     /\ args.target_credit > 0
     /\ args.max_margin > 0)
    => Returned

\* the series is missing or shorter than the trend window
SeriesMissingOrShort ==
    args.spy.status # "ok" \/ Len(args.spy.close) < ema_trend_window

\* C5: with the price series missing or shorter than ema_trend_window,
\* calculate_trend_score returns raw_score 0, both flags false, vix_level 18
\* and an interpretation that is none of the four trend labels.
C5_InsufficientDataNeutral ==
    (IsCall("calculate_trend_score") /\ SeriesMissingOrShort)
    => /\ Returned
       /\ ret.value.raw_score = Num(0)
       /\ ~ret.value.should_trade_long
       /\ ~ret.value.should_trade_short
       /\ ret.value.vix_level = 18
       /\ ret.value.interpretation \notin TrendLabels

C5_Witness ==
    /\ IsCall("calculate_trend_score")
    /\ args.spy.status = "ok"
    /\ Len(args.spy.close) = ema_trend_window - 1
    /\ ret.value.interpretation = "No trend data available"

\* C6: in every result of calculate_trend_score should_trade_long holds
\* exactly when raw_score > 0 and should_trade_short exactly when
\* raw_score < 0; never both, and neither at 0.
C6_FlagsFollowSign ==
    IsCall("calculate_trend_score")
    => /\ Returned
       /\ ret.value.should_trade_long
            <=> (ret.value.raw_score.kind = "num" /\ ret.value.raw_score.v > 0)
       /\ ret.value.should_trade_short
            <=> (ret.value.raw_score.kind = "num" /\ ret.value.raw_score.v < 0)
       /\ ~(ret.value.should_trade_long /\ ret.value.should_trade_short)

\* the score was computed: enough closes, and nothing raised
TrendComputed ==
    /\ IsCall("calculate_trend_score")
    /\ args.spy.status = "ok"
    /\ Len(args.spy.close) >= ema_trend_window
    /\ ~args.fault

C6_Witness ==
    /\ TrendComputed
    /\ ret.value.raw_score.v < 0
    /\ ret.value.should_trade_short
    /\ ~ret.value.should_trade_long

StrictlyIncreasing(close) == \A i \in 1 .. Len(close) - 1 : close[i] < close[i + 1]

StrictlyDecreasing(close) == \A i \in 1 .. Len(close) - 1 : close[i] > close[i + 1]

IsConstant(close) == \A i \in 1 .. Len(close) - 1 : close[i] = close[i + 1]

C8_DeltaInRange ==
    IsCall("calculate_black_scholes_delta")
    => /\ Returned
       /\ ret.value.kind = "num"
       /\ (args.option_type = "put" => (-FP <= ret.value.v /\ ret.value.v <= 0))
       /\ (args.option_type = "call" => (0 <= ret.value.v /\ ret.value.v <= FP))

\* C9: a non-positive price, target credit or margin cap, or a
\* non-positive max loss per contract, is rejected with an error.
C9_InvalidInputRejected ==
    /\ (/\ IsCall("get_trade_recommendations")
        /\ (args.spx_price <= 0 \/ args.target_credit <= 0 \/ args.max_margin <= 0))
       => ~Returned
    /\ (/\ IsCall("calculate_spread_metrics")
        /\ (\/ args.target_credit <= 0
            \/ args.max_margin <= 0
            \/ MaxLossPerSpread(Abs(args.short_strike - args.long_strike)) <= 0))
       => ~Returned

IsNumber(x) == x.kind = "num"

\* both key sets present, and the deltas numbers
FullyPopulated(spread) ==
    /\ DOMAIN spread = StrikeKeys \cup MetricsKeys
    /\ IsNumber(spread.short_delta)
    /\ IsNumber(spread.long_delta)

\* C10: in every result of get_trade_recommendations both spreads are fully
\* populated, and the top-level contracts_needed, estimated_credit and
\* max_loss_per_spread equal the fields of bear_call_spread (and of
\* bull_put_spread, which they are copied from).
C10_TopLevelFitsBothSides ==
    (IsCall("get_trade_recommendations") /\ Returned)
    => /\ FullyPopulated(ret.value.bull_put_spread)
       /\ FullyPopulated(ret.value.bear_call_spread)
       /\ \A side \in {ret.value.bull_put_spread, ret.value.bear_call_spread} :
            /\ ret.value.contracts_needed = side.contracts_needed
            /\ ret.value.estimated_credit = side.estimated_credit
            /\ ret.value.max_loss_per_spread = side.max_loss_per_spread

C10_Witness ==
    /\ IsCall("get_trade_recommendations")
    /\ Returned
    /\ args.spx_price = 5820
    /\ args.target_credit = 2500
    /\ args.max_margin = 5000
    /\ ret.value.contracts_needed = 14
    /\ ret.value.bear_call_spread.short_strike = 5830

====
